---- MODULE Spec2Model ----
(***************************************************************************)
(* Model of the EAD customs-declaration field extractors                   *)
(* (src/python/extract.py, extract_old.py, extract_win.py).                *)
(*                                                                         *)
(* Texts are sequences of symbols.  A symbol is either a one-character     *)
(* string or an atomic label symbol standing for a form label that the     *)
(* code recognises with a regular expression (for instance "DT" for        *)
(* 'Documentul de transport [12 05]').  Regular expressions whose pattern  *)
(* is a literal are modelled by literal symbol sequences; re.search is the *)
(* leftmost occurrence and re.finditer the leftmost non-overlapping        *)
(* occurrences.  Offsets are 0-based as in Python, so txt[a:b] is          *)
(* SubSeq(txt, a + 1, b).                                                  *)
(*                                                                         *)
(* Optional values (Optional[str], Optional[int]) are records              *)
(* [some |-> BOOLEAN, val |-> ...]; NoneStr / NoneInt model Python's None. *)
(*                                                                         *)
(* Each extractor has a specification of its own (SpecSlice, SpecBatch,    *)
(* ...): Init draws the inputs from bounded sets, the actions apply the    *)
(* code, and the variables of the other extractors stay idle.              *)
(***************************************************************************)
EXTENDS Integers, Sequences, FiniteSets, TLC

VARIABLES
    \* slice_between
    txt, endPats, sliceRet, slicePc,
    \* main: the script run, its command line, the documents found under
    \* the path, the records collected so far and the process outcome
    hasArg, pathExists, docs, results, exitCode, stderrMsg, printed, batchPc,
    \* which of the three scripts runs
    variant,
    \* find_mrn / extract_mrn: the document's non-blank lines (each a list
    \* of words), the file name's stem, the returned value, the token it
    \* was cut from and the lookup path that found it
    lines, filename, mrnRet, mrnTok, mrnPath, mrnPc,
    \* extract_identificare: the document's text as symbols ("PB" is a
    \* page break) and the returned transport type
    docText, identRet, identPc,
    \* extract_buc_from_pages: the document's lines (with page breaks) and
    \* the returned piece count
    bucDoc, bucRet, bucPc,
    \* extract_greutate: the document's lines (each a list of words) and
    \* the returned weight
    greLines, greRet, grePc,
    \* extract_descriere_from_pages / extract_descrierea_marfurilor: the
    \* page texts (each a list of lines) and the returned description
    descPages, descRet, descPc,
    \* norm: the argument (None or a string), norm of it and norm of that
    normIn, normOnce, normTwice, normPc,
    \* extract_exporter / the exporter step of extract_fields: the lines
    \* below the label and the returned name
    expLines, expRet, expPc,
    \* extract_data_declaratie / the date step of extract_fields: the
    \* document's lines (lists of words) and the returned date
    dateLines, dateRet, datePc

sliceVars == <<txt, endPats, sliceRet, slicePc>>
batchVars == <<hasArg, pathExists, docs, results, exitCode, stderrMsg,
               printed, batchPc>>
mrnVars == <<lines, filename, mrnRet, mrnTok, mrnPath, mrnPc>>
identVars == <<docText, identRet, identPc>>
bucVars == <<bucDoc, bucRet, bucPc>>
greVars == <<greLines, greRet, grePc>>
descVars == <<descPages, descRet, descPc>>

normVars == <<normIn, normOnce, normTwice, normPc>>
expVars == <<expLines, expRet, expPc>>
dateVars == <<dateLines, dateRet, datePc>>

vars == <<variant, sliceVars, batchVars, mrnVars, identVars, bucVars, greVars,
          descVars, normVars, expVars, dateVars>>

notSlice == <<variant, batchVars, mrnVars, identVars, bucVars, greVars,
              descVars, normVars, expVars, dateVars>>
notBatch == <<variant, sliceVars, mrnVars, identVars, bucVars, greVars,
              descVars, normVars, expVars, dateVars>>
notMrn == <<variant, sliceVars, batchVars, identVars, bucVars, greVars,
            descVars, normVars, expVars, dateVars>>
notIdent == <<variant, sliceVars, batchVars, mrnVars, bucVars, greVars,
              descVars, normVars, expVars, dateVars>>
notBuc == <<variant, sliceVars, batchVars, mrnVars, identVars, greVars,
            descVars, normVars, expVars, dateVars>>
notGre == <<variant, sliceVars, batchVars, mrnVars, identVars, bucVars,
            descVars, normVars, expVars, dateVars>>
notDesc == <<variant, sliceVars, batchVars, mrnVars, identVars, bucVars,
             greVars, normVars, expVars, dateVars>>
notNorm == <<variant, sliceVars, batchVars, mrnVars, identVars, bucVars,
             greVars, descVars, expVars, dateVars>>
notExp == <<variant, sliceVars, batchVars, mrnVars, identVars, bucVars,
            greVars, descVars, normVars, dateVars>>
notDate == <<variant, sliceVars, batchVars, mrnVars, identVars, bucVars,
             greVars, descVars, normVars, expVars>>

----------------------------------------------------------------------------
(* Generic helpers *)

NoneStr == [some |-> FALSE, val |-> <<>>]
SomeStr(s) == [some |-> TRUE, val |-> s]
NoneInt == [some |-> FALSE, val |-> 0]
SomeInt(n) == [some |-> TRUE, val |-> n]

\* All sequences over S of length 0..n
SeqsUpTo(S, n) == UNION {[1..k -> S] : k \in 0..n}

SetMin(S) == CHOOSE x \in S : \A y \in S : x <= y

\* The pattern p (a literal) matches s at 0-based offset i
MatchAt(s, p, i) ==
    /\ i >= 0
    /\ i + Len(p) <= Len(s)
    /\ \A k \in 1..Len(p) : s[i + k] = p[k]

\* re.search(p, s): 0-based start of the leftmost match at or after offset
\* from, or -1
RECURSIVE SearchFrom(_, _, _)
SearchFrom(s, p, from) ==
    IF from + Len(p) > Len(s) THEN -1
    ELSE IF MatchAt(s, p, from) THEN from
    ELSE SearchFrom(s, p, from + 1)

Search(s, p) == SearchFrom(s, p, 0)

\* re.finditer(p, s): the 0-based starts of the leftmost non-overlapping
\* matches (the scan resumes at the end of each match)
RECURSIVE FindIterFrom(_, _, _)
FindIterFrom(s, p, from) ==
    LET i == SearchFrom(s, p, from)
    IN  IF i < 0 THEN {}
        ELSE {i} \cup FindIterFrom(s, p, i + Len(p))

FindIter(s, p) == FindIterFrom(s, p, 0)

----------------------------------------------------------------------------
(* slice_between (extract.py:81-93) *)

MaxTxt == 5

SliceSyms == {"a", "b", "c"}
StartPat == <<"a", "b">>
EndPatChoices ==
    { << <<"c">> >>,
      << <<"c">>, <<"b", "b">> >>,
      << <<"b", "a">>, <<"c", "c">> >> }

\* Mutant of SliceEnds: the comparison mm.start() >= start
SliceEndsGe(t, end_pats, start) ==
    UNION { {e \in FindIter(t, end_pats[k]) : e >= start}
            : k \in 1..Len(end_pats) }

\* ends: every finditer match of every end pattern with mm.start() > start
SliceEnds(t, end_pats, start) ==
    UNION { {e \in FindIter(t, end_pats[k]) : e > start}
            : k \in 1..Len(end_pats) }

slice_between(t, start_pat, end_pats) ==
    LET m == Search(t, start_pat)
    IN  IF m < 0 THEN NoneStr
        ELSE LET start == m + Len(start_pat)
                 ends  == SliceEnds(t, end_pats, start)
                 end   == IF ends # {} THEN SetMin(ends) ELSE Len(t)
             IN  SomeStr(SubSeq(t, start + 1, end))

SliceInit ==
    /\ txt \in SeqsUpTo(SliceSyms, MaxTxt)
    /\ endPats \in EndPatChoices
    /\ sliceRet = NoneStr
    /\ slicePc = "call"

SliceIdle ==
    /\ txt = <<>>
    /\ endPats = <<>>
    /\ sliceRet = NoneStr
    /\ slicePc = "idle"

SliceCall ==
    /\ slicePc = "call"
    /\ sliceRet' = slice_between(txt, StartPat, endPats)
    /\ slicePc' = "done"
    /\ UNCHANGED <<txt, endPats>>
    /\ UNCHANGED notSlice

----------------------------------------------------------------------------
(* main and the record assembly
   (extract.py:362-392, extract_old.py:252-321, extract_win.py:125-163) *)

MaxDocs == 3

Variants == {"extract", "extract_old", "extract_win"}

Fields == {"dataDeclaratie", "nrMrn", "identificare", "numeExportator",
           "buc", "greutate", "descriereaMarfurilor"}

\* What the extractors find in a document: everything, nothing, or a part
FoundChoices == {Fields, {}, {"nrMrn", "buc"}, {"identificare", "greutate"}}

\* The field extractors that raise on some documents: none of the scripts
\* wraps a single extractor in a try/except (extract.py:365-374,
\* extract_old.py:252-295 and 303-308, extract_win.py:125-145)
RaiseChoices == {"none", "greutate", "descriereaMarfurilor"}

\* A document: whether the text/word extraction step succeeds on it
\* (pdfplumber.open / pdftotext), the fields its extractors return a
\* value for, and the field whose extractor raises on it
DocKinds ==
    {[readable |-> TRUE, found |-> f, raises |-> r] :
        f \in FoundChoices, r \in RaiseChoices}
        \cup {[readable |-> FALSE, found |-> {}, raises |-> "none"]}

\* The document makes the loop body raise
Fails(d) == ~d.readable \/ d.raises # "none"

\* A result record: the file it is for, the field keys it carries, those
\* of them whose value is None (JSON null), and whether it is an error
\* record {file, error}
Record(file, keys, nulls) ==
    [file |-> file, keys |-> keys, nulls |-> nulls, error |-> FALSE]
ErrorRecord(file) ==
    [file |-> file, keys |-> {}, nulls |-> {}, error |-> TRUE]

\* extract.py extract_one_pdf: a dict literal with all seven keys, each
\* holding its extractor's return value, None included
extract_one_pdf(i, d) == Record(i, Fields, Fields \ d.found)

\* extract_old.py extract_fields + main: keys are set only when found,
\* except data["identificare"], assigned unconditionally
extract_fields_old(i, d) ==
    Record(i, d.found \cup {"identificare"}, {"identificare"} \ d.found)

\* extract_win.py extract_fields: every key is set only when found
extract_fields_win(i, d) == Record(i, d.found, {})

BatchInit ==
    /\ hasArg \in BOOLEAN
    /\ pathExists \in BOOLEAN
    /\ docs \in SeqsUpTo(DocKinds, MaxDocs)
    \* no path, or a path that does not exist, holds no documents
    /\ (~hasArg => ~pathExists)
    /\ (~pathExists => docs = <<>>)
    /\ results = <<>>
    /\ exitCode = -1
    /\ stderrMsg = ""
    /\ printed = FALSE
    /\ batchPc = "start"

BatchIdle ==
    /\ hasArg = FALSE
    /\ pathExists = FALSE
    /\ docs = <<>>
    /\ results = <<>>
    /\ exitCode = -1
    /\ stderrMsg = ""
    /\ printed = FALSE
    /\ batchPc = "idle"

BatchInputs == <<hasArg, pathExists, docs>>

Exit(code, msg) ==
    /\ exitCode' = code
    /\ stderrMsg' = msg
    /\ batchPc' = "exit"

\* len(sys.argv) < 2: usage message, sys.exit(2) in extract.py and
\* sys.exit(1) in extract_old.py / extract_win.py
UsageError ==
    /\ batchPc = "start"
    /\ ~hasArg
    /\ Exit(IF variant = "extract" THEN 2 ELSE 1, "Usage")
    /\ UNCHANGED <<BatchInputs, results, printed>>
    /\ UNCHANGED notBatch

\* extract.py only: not root.exists(): message, sys.exit(2)
PathNotFound ==
    /\ batchPc = "start"
    /\ hasArg
    /\ variant = "extract"
    /\ ~pathExists
    /\ Exit(2, "Path not found")
    /\ UNCHANGED <<BatchInputs, results, printed>>
    /\ UNCHANGED notBatch

\* The path is accepted.  extract_old.py / extract_win.py do not test
\* the path: Path(folder).glob("*.pdf") of a missing folder yields nothing
EnterLoop ==
    /\ batchPc = "start"
    /\ hasArg
    /\ (variant = "extract" => pathExists)
    /\ batchPc' = "loop"
    /\ UNCHANGED <<BatchInputs, results, exitCode, stderrMsg, printed>>
    /\ UNCHANGED notBatch

\* One document on which nothing raises: its record is appended
ProcessDoc ==
    /\ batchPc = "loop"
    /\ Len(results) < Len(docs)
    /\ LET i == Len(results) + 1
           d == docs[i]
       IN  /\ ~Fails(d)
           /\ results' = Append(results,
                CASE variant = "extract" -> extract_one_pdf(i, d)
                  [] variant = "extract_old" -> extract_fields_old(i, d)
                  [] OTHER -> extract_fields_win(i, d))
    /\ UNCHANGED <<BatchInputs, exitCode, stderrMsg, printed, batchPc>>
    /\ UNCHANGED notBatch

\* extract_old.py / extract_win.py: the loop body's try/except turns a
\* failed text extraction, and an exception of any field extractor, into
\* {"file", "error"} and goes on
ProcessDocError ==
    /\ batchPc = "loop"
    /\ Len(results) < Len(docs)
    /\ variant # "extract"
    /\ Fails(docs[Len(results) + 1])
    /\ results' = Append(results, ErrorRecord(Len(results) + 1))
    /\ UNCHANGED <<BatchInputs, exitCode, stderrMsg, printed, batchPc>>
    /\ UNCHANGED notBatch

\* extract.py: results = [extract_one_pdf(p) for p in find_pdfs(root)]
\* has no try/except; the exception of words_and_texts or of a field
\* extractor leaves main, the interpreter prints the traceback and exits
\* with status 1, and nothing is printed on standard output
ProcessDocRaise ==
    /\ batchPc = "loop"
    /\ Len(results) < Len(docs)
    /\ variant = "extract"
    /\ Fails(docs[Len(results) + 1])
    /\ Exit(1, "Traceback")
    /\ UNCHANGED <<BatchInputs, results, printed>>
    /\ UNCHANGED notBatch

\* print(json.dumps(results)) and normal termination
Emit ==
    /\ batchPc = "loop"
    /\ Len(results) = Len(docs)
    /\ printed' = TRUE
    /\ Exit(0, "")
    /\ UNCHANGED <<BatchInputs, results>>
    /\ UNCHANGED notBatch

----------------------------------------------------------------------------
(* find_mrn (extract_old.py:73-106, extract_win.py:54-74) and
   extract_mrn (extract.py:157-177) *)

MaxMrnLines == 9

Digits == {"0", "1", "2", "3", "4", "5", "6", "7", "8", "9"}
UpperSeq == <<"A", "B", "C", "D", "E", "F", "G", "H", "I", "J", "K", "L", "M",
              "N", "O", "P", "Q", "R", "S", "T", "U", "V", "W", "X", "Y", "Z">>
LowerSeq == <<"a", "b", "c", "d", "e", "f", "g", "h", "i", "j", "k", "l", "m",
              "n", "o", "p", "q", "r", "s", "t", "u", "v", "w", "x", "y", "z">>
UpperAZ == {UpperSeq[i] : i \in 1..Len(UpperSeq)}
LowerAZ == {LowerSeq[i] : i \in 1..Len(LowerSeq)}
\* \w of the regular expressions
WordChars == Digits \cup UpperAZ \cup LowerAZ \cup {"_"}

\* str.upper() of one character
UpperChar(c) ==
    IF c \in LowerAZ
    THEN UpperSeq[CHOOSE i \in 1..Len(LowerSeq) : LowerSeq[i] = c]
    ELSE c
Upper(s) == [i \in 1..Len(s) |-> UpperChar(s[i])]

\* re.sub(r"[^A-Z0-9]", "", s): the characters of s in keep, in order
RECURSIVE Keep(_, _)
Keep(s, keep) ==
    IF s = <<>> THEN <<>>
    ELSE (IF Head(s) \in keep THEN <<Head(s)>> ELSE <<>>)
             \o Keep(Tail(s), keep)

\* s.startswith(p)
StartsWith(s, p) == MatchAt(s, p, 0)

\* s[n:]
DropFirst(s, n) == SubSeq(s, n + 1, Len(s))

\* "".join / flattening of a list of lists
RECURSIVE Flatten(_)
Flatten(ss) == IF ss = <<>> THEN <<>> ELSE Head(ss) \o Flatten(Tail(ss))

\* Length of the longest prefix of s made of characters of allowed
RECURSIVE RunLen(_, _)
RunLen(s, allowed) ==
    IF s = <<>> \/ Head(s) \notin allowed THEN 0
    ELSE 1 + RunLen(Tail(s), allowed)

\* The words used as inputs
LblMRN == <<"M", "R", "N">>
Filler == <<"X">>
Tok18 == <<"2", "5", "R", "O", "A", "B", "C", "D", "E", "F", "G",
           "1", "2", "3", "4", "5", "6", "7">>
Tok19 == Tok18 \o <<"8">>
Tok17 == SubSeq(Tok18, 1, 17)
Tok26 == <<"2", "6">> \o DropFirst(Tok18, 2)
TokHyphen == <<"2", "5", "R", "O", "-", "A", "B", "C", "D", "E", "F", "G",
               "-", "1", "2", "3", "4", "5", "6", "7">>
TokLower == <<"2", "5", "r", "o">> \o DropFirst(Tok18, 4)
MrnToks == {Tok18, Tok19, Tok17, Tok26, TokHyphen, TokLower}
FileNames == {Filler, Tok18, Tok26}

Pat25RO == <<"2", "5", "R", "O">>
Pat26RO == <<"2", "6", "R", "O">>

\* MRN_RE = \b(25RO[A-Z0-9]{6,})\b searched in one word w; ci is re.I
\* (extract_win.py).  The match starts at a word boundary, takes 25RO and
\* the whole run of [A-Z0-9] after it (a shorter run would end between two
\* word characters, where \b fails), needs 6 of them and a word boundary
\* at the end.  The result is group 1, or <<>> without a match.
RECURSIVE MrnReFrom(_, _, _)
MrnReFrom(w, ci, p) ==
    LET body == Digits \cup UpperAZ \cup (IF ci THEN LowerAZ ELSE {})
        cmp  == IF ci THEN Upper(w) ELSE w
        n    == RunLen(DropFirst(w, p + 4), body)
        e    == p + 4 + n
    IN  IF p + 10 > Len(w) THEN <<>>
        ELSE IF /\ (p = 0 \/ w[p] \notin WordChars)
                /\ MatchAt(cmp, Pat25RO, p)
                /\ n >= 6
                /\ (e = Len(w) \/ w[e + 1] \notin WordChars)
             THEN SubSeq(w, p + 1, e)
             ELSE MrnReFrom(w, ci, p + 1)

MrnRe(w, ci) == MrnReFrom(w, ci, 0)

\* MRN_RE.search over a list of words joined by blanks: group 1 of the
\* first word holding a match, or <<>>
RECURSIVE MrnReSearch(_, _)
MrnReSearch(ws, ci) ==
    IF ws = <<>> THEN <<>>
    ELSE IF MrnRe(Head(ws), ci) # <<>> THEN MrnRe(Head(ws), ci)
    ELSE MrnReSearch(Tail(ws), ci)

\* The index of the first line with a word MRN (\bMRN\b, re.I), or 0
RECURSIVE LabelLineFrom(_, _)
LabelLineFrom(ls, i) ==
    IF i > Len(ls) THEN 0
    ELSE IF \E k \in 1..Len(ls[i]) : Upper(ls[i][k]) = LblMRN THEN i
    ELSE LabelLineFrom(ls, i + 1)

\* The first line of the window with a match (1) Try line-by-line
RECURSIVE MrnInWindow(_, _)
MrnInWindow(window, ci) ==
    IF window = <<>> THEN <<>>
    ELSE IF MrnReSearch(Head(window), ci) # <<>>
         THEN MrnReSearch(Head(window), ci)
         ELSE MrnInWindow(Tail(window), ci)

MrnResult(ret, tok, path) == [ret |-> ret, tok |-> tok, path |-> path]
MrnNone == MrnResult(NoneStr, <<>>, "none")

\* mrn[11:] if len(mrn) > 11 else mrn
CutWindow(mrn) == IF Len(mrn) > 11 THEN DropFirst(mrn, 11) ELSE mrn
\* mrn[10:] if len(mrn) > 10 else mrn
CutScan(mrn) == IF Len(mrn) > 10 THEN DropFirst(mrn, 10) ELSE mrn

\* find_mrn of extract_old.py (ci = FALSE) and extract_win.py (ci = TRUE).
\* ls are 1-based: the label line i is Python's index i - 1, and
\* lines[max(0, i-3) : min(len, i+8)] is SubSeq(ls, i - 3, i + 7) clipped
find_mrn(ls, ci) ==
    LET i == LabelLineFrom(ls, 1)
    IN  IF i > 0
        THEN LET lo == IF i - 3 > 1 THEN i - 3 ELSE 1
                 hi == IF i + 7 < Len(ls) THEN i + 7 ELSE Len(ls)
                 window == SubSeq(ls, lo, hi)
                 m == MrnInWindow(window, ci)
                 mj == MrnReSearch(Flatten(window), ci)
             IN  IF m # <<>> THEN MrnResult(SomeStr(CutWindow(m)), m, "window")
                 ELSE IF mj # <<>>
                      THEN MrnResult(SomeStr(CutWindow(mj)), mj, "window")
                      ELSE MrnNone
        ELSE LET m == MrnReSearch(Flatten(ls), ci)
             IN  IF m # <<>> THEN MrnResult(SomeStr(CutScan(m)), m, "scan")
                 ELSE MrnNone

\* extract.py mrn_from_token
mrn_from_token(tok) ==
    LET s == Keep(Upper(tok), Digits \cup UpperAZ)
    IN  IF (StartsWith(s, Pat25RO) \/ StartsWith(s, Pat26RO)) /\ Len(s) >= 18
        THEN SomeStr(DropFirst(s, 11))
        ELSE NoneStr

\* The first word for which mrn_from_token returns a value, or <<>>
RECURSIVE FirstMrnWord(_)
FirstMrnWord(ws) ==
    IF ws = <<>> THEN <<>>
    ELSE IF mrn_from_token(Head(ws)).some THEN Head(ws)
    ELSE FirstMrnWord(Tail(ws))

\* extract.py extract_mrn(words, filename)
extract_mrn(ws, fname) ==
    LET w == FirstMrnWord(ws)
        joined == Flatten(ws)
    IN  IF w # <<>> THEN MrnResult(mrn_from_token(w), w, "word")
        ELSE IF mrn_from_token(joined).some
             THEN MrnResult(mrn_from_token(joined), joined, "joined")
        ELSE IF fname # <<>> /\ mrn_from_token(fname).some
             THEN MrnResult(mrn_from_token(fname), fname, "filename")
        ELSE MrnNone

\* A document of n lines: the label MRN on line labelAt and the token tok
\* on line tokAt (0: nowhere), every other line a filler word.  With split
\* the token is spread over two words of its line.
MrnDoc(n, labelAt, tokAt, tok, split) ==
    [i \in 1..n |->
        IF i # labelAt /\ i # tokAt THEN <<Filler>>
        ELSE (IF i = labelAt THEN <<LblMRN>> ELSE <<>>)
             \o (IF i # tokAt THEN <<>>
                 ELSE IF split THEN <<SubSeq(tok, 1, 7), DropFirst(tok, 7)>>
                 ELSE <<tok>>)]

MrnInit ==
    /\ \E n \in 0..MaxMrnLines, tok \in MrnToks, split \in BOOLEAN :
         \E labelAt \in 0..n, tokAt \in 0..n :
            /\ (split => tok = Tok18 /\ tokAt = 1 /\ labelAt # 1)
            /\ lines = MrnDoc(n, labelAt, tokAt, tok, split)
    /\ filename \in FileNames
    /\ mrnRet = NoneStr
    /\ mrnTok = <<>>
    /\ mrnPath = "none"
    /\ mrnPc = "call"

MrnIdle ==
    /\ lines = <<>>
    /\ filename = <<>>
    /\ mrnRet = NoneStr
    /\ mrnTok = <<>>
    /\ mrnPath = "none"
    /\ mrnPc = "idle"

MrnReturn(r) ==
    /\ mrnRet' = r.ret
    /\ mrnTok' = r.tok
    /\ mrnPath' = r.path
    /\ mrnPc' = "done"
    /\ UNCHANGED <<lines, filename>>
    /\ UNCHANGED notMrn

\* extract_old.py / extract_win.py: mrn = find_mrn(lines)
FindMrnCall ==
    /\ mrnPc = "call"
    /\ variant # "extract"
    /\ MrnReturn(find_mrn(lines, variant = "extract_win"))

\* extract.py: extract_mrn(words, pdf_path.name); the words are the
\* document's words in reading order
ExtractMrnCall ==
    /\ mrnPc = "call"
    /\ variant = "extract"
    /\ MrnReturn(extract_mrn(Flatten(lines), filename))

----------------------------------------------------------------------------
(* extract_identificare_from_pages (extract.py:194-237) and
   extract_identificare (extract_old.py:16-44, extract_win.py:29-39)

   The text is a sequence of blank-separated symbols:
     "DT"   a match of the start label 'Documentul de transport [12 05]'
     "DP"   a match of the end label 'Documentul precedent [12 01]'
     "N740", "N741", "N730", "N787"   the transport codes
     "x"    any other word
     "PB"   a page break (extract.py gets one string per page; the other
            scripts get the text of all pages joined by a line break)
   Symbols are separated by white space, so a label that starts at a later
   symbol starts strictly after the end of an earlier label: e > m.end()
   is e > i for the symbol indices e and i. *)

MaxTokens == 5

IdentSyms == {"DT", "DP", "PB", "N740", "N741", "N730", "N787", "x"}
TransportCodes == {"N740", "N741", "N730", "N787"}

\* re.search of a one-symbol pattern in seg
Contains(seg, sym) == \E k \in 1..Len(seg) : seg[k] = sym

\* Mutant of ClassifySeg: the first transport code of the span decides
ClassifySegFirst(seg, v) ==
    LET codes == {k \in 1..Len(seg) :
                     seg[k] \in TransportCodes
                        /\ (seg[k] = "N787" => v = "extract")}
    IN  IF codes = {} THEN "None"
        ELSE LET c == seg[SetMin(codes)]
             IN  IF c = "N787" THEN "Borderou"
                 ELSE IF c = "N730" THEN "CMR" ELSE "AWB"

\* The tests on one span seg: Borderou, then AWB, then CMR in extract.py;
\* AWB, then CMR in extract_old.py / extract_win.py; "None" when the loop
\* goes on to the next header
ClassifySeg(seg, v) ==
    IF v = "extract" /\ Contains(seg, "N787") THEN "Borderou"
    ELSE IF Contains(seg, "N740") \/ Contains(seg, "N741") THEN "AWB"
    ELSE IF Contains(seg, "N730") THEN "CMR"
    ELSE "None"

\* Symbol indices (1-based) of the matches of sym in t
Positions(t, sym) == {k \in 1..Len(t) : t[k] = sym}

\* seg = t[m.end() : end_pos] for the header at symbol i
SegAfter(t, i) ==
    LET after == {e \in Positions(t, "DP") : e > i}
        end_pos == IF after # {} THEN SetMin(after) ELSE Len(t) + 1
    IN  SubSeq(t, i + 1, end_pos - 1)

\* for m in hdr_iter: the headers at or after symbol from, in order
RECURSIVE ScanHeaders(_, _, _)
ScanHeaders(t, v, from) ==
    LET hdrs == {i \in Positions(t, "DT") : i >= from}
    IN  IF hdrs = {} THEN "None"
        ELSE LET i == SetMin(hdrs)
                 c == ClassifySeg(SegAfter(t, i), v)
             IN  IF c # "None" THEN c ELSE ScanHeaders(t, v, i + 1)

\* scan_text(t) / extract_identificare(full_text)
scan_text(t, v) == ScanHeaders(t, v, 1)

\* The pages of a text: the runs of symbols between the page breaks pb
RECURSIVE SplitAt(_, _)
SplitAt(t, pb) ==
    LET brk == Positions(t, pb)
    IN  IF brk = {} THEN <<t>>
        ELSE <<SubSeq(t, 1, SetMin(brk) - 1)>>
                 \o SplitAt(SubSeq(t, SetMin(brk) + 1, Len(t)), pb)

PagesOf(t) == SplitAt(t, "PB")

\* "\n".join(page_texts): the symbols of all pages
JoinPages(pages) == Flatten(pages)

\* for txt in page_texts: the first page on which scan_text finds a type
RECURSIVE ScanPages(_, _)
ScanPages(pages, v) ==
    IF pages = <<>> THEN "None"
    ELSE IF scan_text(Head(pages), v) # "None" THEN scan_text(Head(pages), v)
    ELSE ScanPages(Tail(pages), v)

\* extract.py: page by page first, then the joined text
extract_identificare_from_pages(page_texts) ==
    LET found == ScanPages(page_texts, "extract")
    IN  IF found # "None" THEN found
        ELSE scan_text(JoinPages(page_texts), "extract")

IdentInit ==
    /\ docText \in SeqsUpTo(IdentSyms, MaxTokens)
    /\ identRet = "None"
    /\ identPc = "call"

IdentIdle ==
    /\ docText = <<>>
    /\ identRet = "None"
    /\ identPc = "idle"

\* extract.py: extract_identificare_from_pages(page_texts)
IdentFromPages ==
    /\ identPc = "call"
    /\ variant = "extract"
    /\ identRet' = extract_identificare_from_pages(PagesOf(docText))
    /\ identPc' = "done"
    /\ UNCHANGED docText
    /\ UNCHANGED notIdent

\* extract_old.py / extract_win.py: extract_identificare(text) on the
\* text of all pages
IdentFromText ==
    /\ identPc = "call"
    /\ variant # "extract"
    /\ identRet' = scan_text(JoinPages(PagesOf(docText)), variant)
    /\ identPc' = "done"
    /\ UNCHANGED docText
    /\ UNCHANGED notIdent

----------------------------------------------------------------------------
(* extract_buc_from_pages (extract.py:242-278)

   A page text is a sequence of lines; a line is one record [k, d]:
     k = "[18 06]"   the field code the span starts at
     k = "Masa"      a line with the next header 'Masa ...' (an end label)
     k = "slash"     a line 'PC / d / ...': a unit code, a slash, the
                     digits d, a slash
     k = "ws"        a line 'PX d': a unit code at the start of the line,
                     white space, the digits d
     k = "x"         any other line
     k = "nl"        the line break between two lines
     k = "PB"        a page break *)

MaxBucItems == 5
BucMin == 1
BucMax == 1000000
\* (\d{1,6}): the most digits a match takes
BucMaxDigits == 6

Sym(k) == [k |-> k, d |-> <<>>]
SymD(k, d) == [k |-> k, d |-> d]

BucDigits == {<<"0">>, <<"5">>, <<"9", "2">>,
              <<"2", "0", "0", "0", "0", "0", "0">>}
BucSyms ==
    {Sym("[18 06]"), Sym("Masa"), Sym("x"), Sym("PB")}
        \cup {SymD("slash", d) : d \in BucDigits \ {<<"5">>}}
        \cup {SymD("ws", d) : d \in {<<"0">>, <<"5">>}}

\* next_headers of extract_buc_from_pages
BucNextHeaders ==
    << <<Sym("Descrierea marfurilor")>>, <<Sym("Cod nomenclatura combinata")>>,
       <<Sym("Valoarea")>>, <<Sym("Masa")>>, <<Sym("Regim")>> >>

\* The text of a page: its lines, a line break after each
RECURSIVE PageText(_)
PageText(ls) ==
    IF ls = <<>> THEN <<>>
    ELSE <<Head(ls), Sym("nl")>> \o PageText(Tail(ls))

DigitVal(c) == CHOOSE n \in 0..9 : ToString(n) = c
\* int(m.group(1))
RECURSIVE DigitsToInt(_)
DigitsToInt(d) ==
    IF d = <<>> THEN 0
    ELSE 10 * DigitsToInt(SubSeq(d, 1, Len(d) - 1)) + DigitVal(d[Len(d)])

\* Whether the regular expression of form k ("slash": head / N /, "ws":
\* the line-start variant value_pat) matches at the symbol x: the digits
\* must be followed by the slash (or the word boundary), so a run of more
\* than six digits does not match
BucMatches(x, k) == x.k = k /\ Len(x.d) >= 1 /\ Len(x.d) <= BucMaxDigits

\* re.search of form k in seg: the digits of the first match, or <<>>
RECURSIVE BucSearch(_, _)
BucSearch(seg, k) ==
    IF seg = <<>> THEN <<>>
    ELSE IF BucMatches(Head(seg), k) THEN Head(seg).d
    ELSE BucSearch(Tail(seg), k)

\* Mutant of BucFirstMatch: the line-start variant is tried first
BucFirstMatchWs(seg) ==
    IF BucSearch(seg, "ws") # <<>> THEN BucSearch(seg, "ws")
    ELSE BucSearch(seg, "slash")

\* m: the 'head / N /' form first, the line-start variant as fall-back
BucFirstMatch(seg) ==
    IF BucSearch(seg, "slash") # <<>> THEN BucSearch(seg, "slash")
    ELSE BucSearch(seg, "ws")

\* Mutant of BucInRange: the lower limit is 0
BucInRange0(v) == 0 <= v /\ v <= BucMax

\* 1 <= v <= 1000000
BucInRange(v) == BucMin <= v /\ v <= BucMax

\* for txt in page_texts: ...; return None
RECURSIVE extract_buc_from_pages(_)
extract_buc_from_pages(page_texts) ==
    IF page_texts = <<>> THEN NoneInt
    ELSE LET seg == slice_between(PageText(Head(page_texts)),
                                  <<Sym("[18 06]")>>, BucNextHeaders)
             rest == extract_buc_from_pages(Tail(page_texts))
         IN  IF ~seg.some \/ seg.val = <<>> THEN rest
             ELSE LET m == BucFirstMatch(seg.val)
                  IN  IF m # <<>> /\ BucInRange(DigitsToInt(m))
                      THEN SomeInt(DigitsToInt(m))
                      ELSE rest

BucInit ==
    /\ bucDoc \in SeqsUpTo(BucSyms, MaxBucItems)
    /\ bucRet = NoneInt
    /\ bucPc = "call"

BucIdle ==
    /\ bucDoc = <<>>
    /\ bucRet = NoneInt
    /\ bucPc = "idle"

\* extract.py: extract_buc_from_pages(page_texts)
BucCall ==
    /\ bucPc = "call"
    /\ bucRet' = extract_buc_from_pages(SplitAt(bucDoc, Sym("PB")))
    /\ bucPc' = "done"
    /\ UNCHANGED bucDoc
    /\ UNCHANGED notBuc

----------------------------------------------------------------------------
(* extract_greutate (extract.py:130-155, extract_old.py:108-144,
   extract_win.py:76-89)

   A document is a list of non-blank lines, a line a list of words, a word
   a sequence of characters.  The word <<"Masa bruta [18 04]">> stands for
   the label.  extract_old.py / extract_win.py read the lines as text (the
   words joined by blanks); extract.py reads the words with their boxes,
   laid out here one line band per line. *)

MaxWeightLines == 3

Alnum == Digits \cup UpperAZ \cup LowerAZ
NumSeps == {".", ","}

WeightLabel == <<"Masa bruta [18 04]">>
WeightToks ==
    { <<"2", "3", "0", ".", "0", "0", "0">>,
      <<"9", "8", "9", ",", "5">>,
      <<"5">>,
      <<"5", ".", "2", "5", "0">>,
      <<"1", "2">>,
      <<"K", "G">>,
      <<"R", "O", "B", "U", "1", "0", "3", "0">> }
FieldCodeTok == <<"[", "1", "8", "]">>
\* The lines below the label: a field-code line, one word, or a word
\* followed by a unit or a second number
WeightLineChoices ==
    {<<FieldCodeTok>>}
        \cup {<<t>> : t \in WeightToks}
        \cup {<<t, u>> : t \in WeightToks, u \in {<<"K", "G">>, <<"1", "2">>}}

\* " ".join(words)
RECURSIVE JoinBlank(_)
JoinBlank(ws) ==
    IF ws = <<>> THEN <<>>
    ELSE IF Len(ws) = 1 THEN Head(ws)
    ELSE Head(ws) \o <<" ">> \o JoinBlank(Tail(ws))

\* re.split(r"[.,]", raw)[0]: the digits before the first separator
IntPart(raw) == SubSeq(raw, 1, RunLen(raw, Digits))

\* num_pat of extract_old.py / extract_win.py searched in the characters c
\* from offset p on:
\*   (?<![A-Za-z0-9])(\d{2,}(?:[.,]\d{3})*|\d{2,}(?:[.,]\d+)?)(?![A-Za-z0-9])
\* A match starts at a digit not preceded by a letter or digit, so at the
\* start of a run of digits; \d{2,} takes the whole run (a shorter one
\* would be followed by a digit, which no continuation accepts), which
\* needs two digits; the separator groups are optional, so the match
\* succeeds as soon as the run is not followed by a letter.  The result is
\* the run (the integer part of nums[0]), or <<>> without a match.
RECURSIVE FirstNumFrom(_, _)
FirstNumFrom(c, p) ==
    LET n == RunLen(DropFirst(c, p), Digits)
    IN  IF p >= Len(c) THEN <<>>
        ELSE IF /\ c[p + 1] \in Digits
                /\ (p = 0 \/ c[p] \notin Alnum)
                /\ n >= 2
                /\ (p + n = Len(c) \/ c[p + n + 1] \notin Alnum)
             THEN SubSeq(c, p + 1, p + n)
             ELSE FirstNumFrom(c, p + 1)

\* for j in range(i + 1, min(i + 4, len(lines))): the lines ls below the
\* label, at most three of them
RECURSIVE WeightBelow(_, _)
WeightBelow(ls, left) ==
    IF ls = <<>> \/ left = 0 THEN NoneInt
    ELSE LET cand == JoinBlank(Head(ls))
             num  == FirstNumFrom(cand, 0)
         IN  IF Contains(cand, "[") \/ num = <<>>
             THEN WeightBelow(Tail(ls), left - 1)
             ELSE SomeInt(DigitsToInt(num))

\* The index of the first line with the label, or 0
LabelLine(ls) ==
    LET hs == {i \in 1..Len(ls) : Contains(ls[i], WeightLabel)}
    IN  IF hs = {} THEN 0 ELSE SetMin(hs)

\* extract_greutate(lines) of extract_old.py / extract_win.py
extract_greutate_lines(ls) ==
    IF LabelLine(ls) = 0 THEN NoneInt
    ELSE WeightBelow(DropFirst(ls, LabelLine(ls)), 3)

\* num_pat of extract.py, matched against a whole word:
\*   ^(?:\d{1,3}(?:[.,]\d{3})*|\d+(?:[.,]\d+)?)$
\* groups of a separator and three digits
RECURSIVE IsGroups3(_)
IsGroups3(w) ==
    \/ w = <<>>
    \/ /\ Len(w) >= 4
       /\ w[1] \in NumSeps
       /\ \A k \in 2..4 : w[k] \in Digits
       /\ IsGroups3(DropFirst(w, 4))

NumPatWord(w) ==
    LET n == RunLen(w, Digits)
        rest == DropFirst(w, n)
    IN  /\ n >= 1
        /\ \/ n <= 3 /\ IsGroups3(rest)
           \/ rest = <<>>
           \/ /\ Len(rest) >= 2
              /\ rest[1] \in NumSeps
              /\ \A k \in 2..Len(rest) : rest[k] \in Digits

\* The word boxes of the lines below the label line i, relative to the
\* label word 'Masa' (top 0, bottom 10, x0 50, x1 80): line r below the
\* label is a band at top 12 r, its k-th word starts at x0 50 + 60 (k - 1)
WordBoxes(ls, i) ==
    UNION { {[text |-> ls[i + r][k], top |-> 12 * r, x0 |-> 50 + 60 * (k - 1)] :
                k \in 1..Len(ls[i + r])} : r \in 1..(Len(ls) - i) }

\* candidates: the words with w.bottom <= top <= w.bottom + 24,
\* x0 - 20 <= ww.x0 <= x1 + 140 and a text matching num_pat
WeightCandidates(ls, i) ==
    {b \in WordBoxes(ls, i) :
        /\ 10 <= b.top /\ b.top <= 10 + 24
        /\ 50 - 20 <= b.x0 /\ b.x0 <= 80 + 140
        /\ NumPatWord(b.text)}

\* candidates.sort(key=(abs(top - w.bottom), x0)); candidates[0]
NearestCandidate(cs) ==
    CHOOSE b \in cs : \A o \in cs :
        \/ b.top - 10 < o.top - 10
        \/ (b.top = o.top /\ b.x0 <= o.x0)

\* extract_greutate(words) of extract.py; the band of the label word
\* holds 'brută'
extract_greutate_words(ls) ==
    LET i == LabelLine(ls)
    IN  IF i = 0 \/ WeightCandidates(ls, i) = {} THEN NoneInt
        ELSE SomeInt(DigitsToInt(
                 IntPart(NearestCandidate(WeightCandidates(ls, i)).text)))

GreInit ==
    /\ \E hdr \in {<<>>, << <<WeightLabel>> >>} :
         \E below \in SeqsUpTo(WeightLineChoices, MaxWeightLines) :
            greLines = hdr \o below
    /\ greRet = NoneInt
    /\ grePc = "call"

GreIdle ==
    /\ greLines = <<>>
    /\ greRet = NoneInt
    /\ grePc = "idle"

\* extract_old.py / extract_win.py: extract_greutate(lines)
GreFromLines ==
    /\ grePc = "call"
    /\ variant # "extract"
    /\ greRet' = extract_greutate_lines(greLines)
    /\ grePc' = "done"
    /\ UNCHANGED greLines
    /\ UNCHANGED notGre

\* extract.py: extract_greutate(words)
GreFromWords ==
    /\ grePc = "call"
    /\ variant = "extract"
    /\ greRet' = extract_greutate_words(greLines)
    /\ grePc' = "done"
    /\ UNCHANGED greLines
    /\ UNCHANGED notGre

----------------------------------------------------------------------------
(* extract_descriere_from_pages (extract.py:280-357) and
   extract_descrierea_marfurilor (extract_win.py:91-123)

   A page text is a list of lines, a line a sequence of symbols: single
   characters and the labels
     "DESC"     'Descrierea mărfurilor [18 05]'
     "COD"      'Cod nomenclatură combinată [18 09]'
     "MASA"     'Masa brută [18 04]'
     "TIPUL"    'Tipul și nr. de colete [18 06]'
     "COD_CUS"  'Cod CUS [18 08]'
   each of which ends with its bracketed field code.  The inputs hold no
   header split over two lines ('Descrierea' / 'mărfurilor'), so the
   header line always exists when the start pattern matches. *)

MaxText == 4
\* range(header_idx + 1, min(header_idx + 8, len(lines)))
DescWindow == 8

DescChars == {"a", "b", "-", " ", ","}
Punct == {".", ",", ";", ":"}
\* Labels that carry a bracketed field code
BracketLabels == {"DESC", "COD", "MASA", "TIPUL", "COD_CUS"}
\* bad_starts, as far as the labels above go: "Cod ", "Tipul", "Masa"
BadStarts == {"COD", "COD_CUS", "TIPUL", "MASA"}
\* next_headers of extract_descriere_from_pages
DescNextHeaders ==
    << <<"COD">>, <<"VALOAREA">>, <<"MASA">>, <<"TIPUL">>, <<"REGIM">> >>
\* stopper of extract_win.py: labels a line may start with
Stoppers == {"TIPUL", "COD_CUS", "MASA"}
\* The neighbouring column labels extract_win.py cuts a line at
Residues == {"TIPUL", "COD_CUS"}

\* str.lstrip / rstrip / strip of blanks
RECURSIVE LStrip(_)
LStrip(x) == IF x # <<>> /\ Head(x) = " " THEN LStrip(Tail(x)) ELSE x
RECURSIVE RStrip(_)
RStrip(x) ==
    IF x # <<>> /\ x[Len(x)] = " " THEN RStrip(SubSeq(x, 1, Len(x) - 1)) ELSE x
Strip(x) == LStrip(RStrip(x))

\* "\n".join(lines): the text of a page
RECURSIVE JoinLines(_)
JoinLines(ls) ==
    IF ls = <<>> THEN <<>>
    ELSE IF Len(ls) = 1 THEN Head(ls)
    ELSE Head(ls) \o <<"\n">> \o JoinLines(Tail(ls))

\* Mutant of StripIndex: the leading article number is kept
KeepIndex(c) == c

\* re.sub(r"^\s*\d+[.)]?\s+", "", candidate)
StripIndex(c) ==
    LET b  == RunLen(c, {" "})
        n  == RunLen(DropFirst(c, b), Digits)
        a  == b + n
        p  == IF a < Len(c) /\ c[a + 1] \in {".", ")"} THEN 1 ELSE 0
        w  == RunLen(DropFirst(c, a + p), {" "})
        w0 == RunLen(DropFirst(c, a), {" "})
    IN  IF n >= 1 /\ w >= 1 THEN DropFirst(c, a + p + w)
        ELSE IF n >= 1 /\ w0 >= 1 THEN DropFirst(c, a + w0)
        ELSE c

\* re.sub(r"\s*-\s*", " - ", candidate)
RECURSIVE SubHyphen(_)
SubHyphen(c) ==
    LET b == RunLen(c, {" "})
    IN  IF c = <<>> THEN <<>>
        ELSE IF b < Len(c) /\ c[b + 1] = "-"
             THEN <<" ", "-", " ">>
                      \o SubHyphen(LStrip(DropFirst(c, b + 1)))
             ELSE <<Head(c)>> \o SubHyphen(Tail(c))

\* re.sub(r"\s+([.,;:])", r"\1", candidate)
RECURSIVE SubPunct(_)
SubPunct(c) ==
    LET b == RunLen(c, {" "})
    IN  IF c = <<>> THEN <<>>
        ELSE IF b >= 1 /\ b < Len(c) /\ c[b + 1] \in Punct
             THEN <<c[b + 1]>> \o SubPunct(DropFirst(c, b + 1))
             ELSE <<Head(c)>> \o SubPunct(Tail(c))

\* re.sub(r"\s{2,}", " ", candidate)
RECURSIVE Collapse(_)
Collapse(c) ==
    LET b == RunLen(c, {" "})
    IN  IF c = <<>> THEN <<>>
        ELSE IF b >= 2 THEN <<" ">> \o Collapse(DropFirst(c, b))
        ELSE <<Head(c)>> \o Collapse(Tail(c))

\* candidate.rsplit("]", 1)[-1]: what follows the last closing bracket
AfterLastBracket(c) ==
    LET bs == {k \in 1..Len(c) : c[k] = "]" \/ c[k] \in BracketLabels}
    IN  DropFirst(c, CHOOSE k \in bs : \A j \in bs : j <= k)

\* re.sub(r"^[\s:\-–—]+", "", tail)
RECURSIVE StripLead(_)
StripLead(x) ==
    IF x # <<>> /\ Head(x) \in {" ", ":", "-"} THEN StripLead(Tail(x)) ELSE x

\* The substitutions of clean_candidate on a candidate that passed the
\* bracket and bad_starts tests
CleanText(c) ==
    LET r == Strip(Collapse(SubPunct(SubHyphen(StripIndex(c)))))
    IN  IF r = <<>> THEN NoneStr ELSE SomeStr(r)

\* clean_candidate(candidate)
clean_candidate(c) ==
    LET hasClose == \E k \in 1..Len(c) : c[k] = "]" \/ c[k] \in BracketLabels
        hasOpen  == hasClose \/ Contains(c, "[")
        tail     == StripLead(Strip(AfterLastBracket(c)))
        cand     == IF hasClose THEN tail ELSE c
    IN  IF c = <<>> THEN NoneStr
        ELSE IF hasOpen /\ ~hasClose THEN NoneStr
        ELSE IF hasClose /\ tail = <<>> THEN NoneStr
        ELSE IF Head(cand) \in BadStarts THEN NoneStr
        ELSE CleanText(cand)

\* The first line of ls, in order, that clean_candidate accepts
RECURSIVE FirstClean(_)
FirstClean(ls) ==
    IF ls = <<>> THEN NoneStr
    ELSE IF clean_candidate(Strip(Head(ls))).some
         THEN clean_candidate(Strip(Head(ls)))
         ELSE FirstClean(Tail(ls))

\* seg_orig.splitlines()
SplitLines(x) == IF x = <<>> THEN <<>> ELSE SplitAt(x, "\n")

\* The body of the page loop for one page text (a list of lines): the
\* description, or NoneStr when the loop goes on to the next page
DescOfPage(page) ==
    LET t    == JoinLines(page)
        seg  == slice_between(t, <<"DESC">>, DescNextHeaders)
        hs   == {i \in 1..Len(page) : Contains(page[i], "DESC")}
        h    == SetMin(hs)
        last == IF h + DescWindow - 1 < Len(page)
                THEN h + DescWindow - 1 ELSE Len(page)
        near == FirstClean(SubSeq(page, h + 1, last))
    IN  IF ~seg.some \/ seg.val = <<>> THEN NoneStr
        ELSE IF hs # {} /\ near.some THEN near
        ELSE FirstClean(SplitLines(seg.val))

\* extract_descriere_from_pages(page_texts)
RECURSIVE extract_descriere_from_pages(_)
extract_descriere_from_pages(page_texts) ==
    IF page_texts = <<>> THEN NoneStr
    ELSE IF DescOfPage(Head(page_texts)).some
         THEN DescOfPage(Head(page_texts))
         ELSE extract_descriere_from_pages(Tail(page_texts))

\* extract_win.py: the lines collected from line j on, up to the first
\* stopper line or blank line
RECURSIVE Collect(_, _)
Collect(ls, j) ==
    IF j > Len(ls) THEN <<>>
    ELSE IF ls[j] # <<>> /\ Head(ls[j]) \in Stoppers THEN <<>>
    ELSE IF Strip(ls[j]) = <<>> THEN <<>>
    ELSE <<ls[j]>> \o Collect(ls, j + 1)

\* The first line at or after j that is not blank (len + 1 if none)
RECURSIVE SkipBlank(_, _)
SkipBlank(ls, j) ==
    IF j <= Len(ls) /\ Strip(ls[j]) = <<>> THEN SkipBlank(ls, j + 1) ELSE j

\* re.match(r"\s*(\d+)\s+(.*)", raw): group 2, or raw without a match
StripArticle(raw) ==
    LET b == RunLen(raw, {" "})
        n == RunLen(DropFirst(raw, b), Digits)
        w == RunLen(DropFirst(raw, b + n), {" "})
    IN  IF n >= 1 /\ w >= 1 THEN DropFirst(raw, b + n + w) ELSE raw

\* The four re.sub calls that cut a line at a neighbouring column label
CutResidue(x) ==
    LET rs == {k \in 1..Len(x) : x[k] \in Residues}
    IN  IF rs = {} THEN x ELSE RStrip(SubSeq(x, 1, SetMin(rs) - 1))

\* out: the cleaned collected lines that are not empty
RECURSIVE CleanCollected(_)
CleanCollected(raws) ==
    IF raws = <<>> THEN <<>>
    ELSE LET x == Strip(CutResidue(StripArticle(Head(raws))))
         IN  (IF x # <<>> THEN <<x>> ELSE <<>>) \o CleanCollected(Tail(raws))

\* extract_descrierea_marfurilor(text) of extract_win.py, on the lines of
\* the text; "" is <<>>
extract_descrierea_marfurilor(ls) ==
    LET hs == {i \in 1..Len(ls) : Contains(ls[i], "DESC")}
    IN  IF hs = {} THEN <<>>
        ELSE Strip(JoinBlank(CleanCollected(
                 Collect(ls, SkipBlank(ls, SetMin(hs) + 1)))))

\* The texts of a value line: no blank at either end
DescTexts ==
    {x \in SeqsUpTo(DescChars, MaxText) :
        x # <<>> /\ Head(x) # " " /\ x[Len(x)] # " "}
ArticleNumbers == {<<"1">>, <<"1", "2">>}
\* What follows the value line: a blank line and the next header; the
\* next header at once; a second text line, a blank line and the header
DescTails ==
    { << <<>>, <<"COD">> >>,
      << <<"COD">> >>,
      << <<"b">>, <<>>, <<"COD">> >> }

\* What stands between the header and the next header when the value
\* line comes only after the next header: nothing, or a blank line
DescGaps == {<<>>, << <<>> >>}

\* The page texts: the header, the value line and a tail; or the header,
\* a gap, the next header and the value line after it
DescPageChoices ==
    {<< <<"DESC">>, num \o <<" ">> \o text >> \o tl :
        num \in ArticleNumbers, text \in DescTexts, tl \in DescTails}
    \cup
    {<< <<"DESC">> >> \o gap \o << <<"COD">>, num \o <<" ">> \o text >> :
        num \in ArticleNumbers, text \in DescTexts, gap \in DescGaps}

DescInit ==
    /\ \E page \in DescPageChoices : descPages = <<page>>
    /\ descRet = NoneStr
    /\ descPc = "call"

DescIdle ==
    /\ descPages = <<>>
    /\ descRet = NoneStr
    /\ descPc = "idle"

\* extract.py: extract_descriere_from_pages(page_texts)
DescFromPages ==
    /\ descPc = "call"
    /\ variant = "extract"
    /\ descRet' = extract_descriere_from_pages(descPages)
    /\ descPc' = "done"
    /\ UNCHANGED descPages
    /\ UNCHANGED notDesc

\* extract_win.py: desc = extract_descrierea_marfurilor(text), kept in the
\* record only if it is not empty; the text is that of all pages
DescFromText ==
    /\ descPc = "call"
    /\ variant = "extract_win"
    /\ LET d == extract_descrierea_marfurilor(Flatten(descPages))
       IN  descRet' = IF d = <<>> THEN NoneStr ELSE SomeStr(d)
    /\ descPc' = "done"
    /\ UNCHANGED descPages
    /\ UNCHANGED notDesc

----------------------------------------------------------------------------
(* strip_accents and norm (extract.py:27-31)

   A string is a sequence of characters.  Besides ASCII characters the
   inputs hold the precomposed letters "a_breve" (U+0103), "A_BREVE"
   (U+0102), "S_COMMA" (U+0218) and "I_DOT" (U+0130), and the combining
   marks "breve" (U+0306), "comma_below" (U+0326) and "dot_above" (U+0307),
   which are of category Mn. *)

MaxNorm == 3

NormChars ==
    {"a", "A", "S", "1", ".", " ", "a_breve", "A_BREVE", "S_COMMA", "I_DOT",
     "breve", "dot_above"}
\* unicodedata.category(c) == "Mn"
Mn == {"breve", "comma_below", "dot_above"}
\* What str.strip() removes
WhiteSpace == {" ", "\n", "\t"}

\* The canonical decomposition of one character
Decompose(c) ==
    CASE c = "a_breve" -> <<"a", "breve">>
      [] c = "A_BREVE" -> <<"A", "breve">>
      [] c = "S_COMMA" -> <<"S", "comma_below">>
      [] c = "s_comma" -> <<"s", "comma_below">>
      [] c = "I_DOT"   -> <<"I", "dot_above">>
      [] OTHER         -> <<c>>

\* unicodedata.normalize("NFD", s).  The canonical reordering of a run
\* of marks is left out: strip_accents drops every mark of the inputs.
RECURSIVE NFD(_)
NFD(x) == IF x = <<>> THEN <<>> ELSE Decompose(Head(x)) \o NFD(Tail(x))

\* strip_accents(s)
strip_accents(x) == SelectSeq(NFD(x), LAMBDA c : c \notin Mn)

\* str.lower() of one character
LowerChar(c) ==
    CASE c \in UpperAZ ->
             <<LowerSeq[CHOOSE i \in 1..Len(UpperSeq) : UpperSeq[i] = c]>>
      [] c = "A_BREVE" -> <<"a_breve">>
      [] c = "S_COMMA" -> <<"s_comma">>
      [] c = "I_DOT"   -> <<"i", "dot_above">>
      [] OTHER         -> <<c>>
RECURSIVE Lower(_)
Lower(x) == IF x = <<>> THEN <<>> ELSE LowerChar(Head(x)) \o Lower(Tail(x))

\* str.strip()
RECURSIVE StripWs(_)
StripWs(x) ==
    IF x = <<>> THEN x
    ELSE IF Head(x) \in WhiteSpace THEN StripWs(Tail(x))
    ELSE IF x[Len(x)] \in WhiteSpace THEN StripWs(SubSeq(x, 1, Len(x) - 1))
    ELSE x

\* s or ""
OrEmpty(o) == IF o.some THEN o.val ELSE <<>>

\* Mutant of norm: the string is trimmed before the accents are removed
normStripFirst(o) == strip_accents(Lower(StripWs(OrEmpty(o))))

\* norm(s)
norm(o) == StripWs(Lower(strip_accents(OrEmpty(o))))

NormInit ==
    /\ normIn \in {NoneStr} \cup {SomeStr(x) : x \in SeqsUpTo(NormChars, MaxNorm)}
    /\ normOnce = <<>>
    /\ normTwice = <<>>
    /\ normPc = "call"

NormIdle ==
    /\ normIn = NoneStr
    /\ normOnce = <<>>
    /\ normTwice = <<>>
    /\ normPc = "idle"

\* norm(s)
NormCall ==
    /\ normPc = "call"
    /\ normOnce' = norm(normIn)
    /\ normPc' = "once"
    /\ UNCHANGED <<normIn, normTwice>>
    /\ UNCHANGED notNorm

\* norm(norm(s))
NormAgain ==
    /\ normPc = "once"
    /\ normTwice' = norm(SomeStr(normOnce))
    /\ normPc' = "twice"
    /\ UNCHANGED <<normIn, normOnce>>
    /\ UNCHANGED notNorm

----------------------------------------------------------------------------
(* extract_exporter (extract.py:98-128) and the exporter step of
   extract_fields (extract_old.py:274-280, extract_win.py:136-138)

   The document holds the label 'Exportator [13 01]' and, below it, the
   lines expLines, top to bottom.  A line is a record of its words (whole
   tokens) and of its distance below the bottom of the label; the words
   of a line share that top and stand left to right.  Tokens:
     "Nr:"   the start of the VAT line
     "X"     a checkbox glyph
     "[13"   a piece of a bracketed field code
     others  words of a name *)

MaxExpLines == 2
\* bottom < ww["top"] <= bottom + 60
ExpBand == 60
\* abs(line_groups[-1]["top"] - ww["top"]) > 2.5, on whole numbers
ExpLineTol == 2
\* The tops of the lines: the k-th line inside the band, or beyond it
ExpLineGap == 12

ExpToks == {"Nr:", "X", "[13", "ACME", "SRL"}
\* CHECK_TICK
CheckTicks == {"X", "x"}
\* re.fullmatch(r"\[?\d{1,2}\]?|\[|\]", text)
FieldCodeToks == {"[13", "01]", "13", "[", "]"}
\* norm(raw).startswith("nr")
StartsNr(ws) == ws # <<>> /\ Head(ws) \in {"Nr:", "Nr", "NR", "nr"}

\* The words of the lines, each with its text, top and x0
WordsOf(ls) ==
    Flatten([i \in 1..Len(ls) |->
        [k \in 1..Len(ls[i].words) |->
            [text |-> ls[i].words[k], top |-> ls[i].top, x0 |-> k]]])

\* nxt.sort(key=lambda x: (x["top"], x["x0"]))
WordBefore(a, b) == a.top < b.top \/ (a.top = b.top /\ a.x0 <= b.x0)
RECURSIVE SortWords(_)
SortWords(ws) ==
    IF ws = <<>> THEN <<>>
    ELSE LET k == CHOOSE k \in 1..Len(ws) :
                     \A j \in 1..Len(ws) : WordBefore(ws[k], ws[j])
         IN  <<ws[k]>> \o SortWords(SubSeq(ws, 1, k - 1)
                                       \o SubSeq(ws, k + 1, Len(ws)))

\* group into lines: a word opens a group when its top is more than the
\* tolerance away from the top of the last group
RECURSIVE GroupLines(_, _)
GroupLines(ws, groups) ==
    IF ws = <<>> THEN groups
    ELSE LET w == Head(ws)
             n == Len(groups)
             d == IF n = 0 THEN 0 ELSE groups[n].top - w.top
         IN  IF n = 0 \/ d > ExpLineTol \/ -d > ExpLineTol
             THEN GroupLines(Tail(ws),
                      Append(groups, [top |-> w.top, words |-> <<w.text>>]))
             ELSE GroupLines(Tail(ws),
                      [groups EXCEPT ![n].words = Append(@, w.text)])

\* while tokens and CHECK_TICK.match(tokens[0]["text"]): tokens.pop(0)
RECURSIVE DropTicks(_)
DropTicks(ts) ==
    IF ts # <<>> /\ Head(ts) \in CheckTicks THEN DropTicks(Tail(ts)) ELSE ts

\* cleaned: the tokens that are not field-code tokens
CleanTokens(ts) == SelectSeq(DropTicks(ts), LAMBDA t : t \notin FieldCodeToks)

\* for ln in line_groups: the first name that is not empty
RECURSIVE FirstName(_)
FirstName(groups) ==
    IF groups = <<>> THEN NoneStr
    ELSE IF StartsNr(Head(groups).words) THEN FirstName(Tail(groups))
    ELSE IF CleanTokens(Head(groups).words) # <<>>
         THEN SomeStr(CleanTokens(Head(groups).words))
    ELSE FirstName(Tail(groups))

\* extract_exporter(words): the label word has its bottom at 0
extract_exporter(ws) ==
    LET nxt == SelectSeq(ws, LAMBDA w : 0 < w.top /\ w.top <= ExpBand)
    IN  FirstName(GroupLines(SortWords(nxt), <<>>))

\* extract_old.py / extract_win.py: lines[i + 1] of the label line i, if
\* there is one
exporter_next_line(ls) ==
    IF ls = <<>> THEN NoneStr ELSE SomeStr(ls[1].words)

\* The lines below the label: n lines of one or two tokens, the first
\* inBand of them inside the band and the others beyond it
ExpLineTexts == SeqsUpTo(ExpToks, 2) \ {<<>>}
ExpInit ==
    /\ \E n \in 0..MaxExpLines :
         \E inBand \in 0..n, texts \in [1..n -> ExpLineTexts] :
            expLines = [k \in 1..n |->
                [words |-> texts[k],
                 top |-> IF k <= inBand THEN k * ExpLineGap
                         ELSE ExpBand + k * ExpLineGap]]
    /\ expRet = NoneStr
    /\ expPc = "call"

ExpIdle ==
    /\ expLines = <<>>
    /\ expRet = NoneStr
    /\ expPc = "idle"

\* extract.py: "numeExportator": extract_exporter(words)
ExporterFromWords ==
    /\ expPc = "call"
    /\ variant = "extract"
    /\ expRet' = extract_exporter(WordsOf(expLines))
    /\ expPc' = "done"
    /\ UNCHANGED expLines
    /\ UNCHANGED notExp

\* extract_old.py / extract_win.py: data["numeExportator"] = lines[i + 1]
ExporterFromLines ==
    /\ expPc = "call"
    /\ variant # "extract"
    /\ expRet' = exporter_next_line(expLines)
    /\ expPc' = "done"
    /\ UNCHANGED expLines
    /\ UNCHANGED notExp

----------------------------------------------------------------------------
(* extract_data_declaratie (extract.py:179-192) and the date step of
   extract_fields (extract_old.py:256-263, extract_win.py:128-131)

   The document is a list of lines, a line a list of words, a word a
   sequence of characters.  Two labels are single symbols: "Data" (a word
   whose norm contains 'data') and "[15 09]" (the field code; its digits
   are followed by a blank and a bracket, so no date pattern can match
   inside it).  Every line of the inputs is an anchor line: the two labels
   and one more word. *)

MaxDateLines == 2

DateSeps == {".", "/", "-"}

\* The words of a list joined by blanks
RECURSIVE JoinWords(_)
JoinWords(ws) ==
    IF ws = <<>> THEN <<>>
    ELSE IF Len(ws) = 1 THEN Head(ws)
    ELSE Head(ws) \o <<" ">> \o JoinWords(Tail(ws))

\* x[p] of a 0-based position p is a digit
DigitAt(x, p) == p >= 0 /\ p < Len(x) /\ x[p + 1] \in Digits
\* \b after a digit that ends at the 0-based position e: no word
\* character follows
EndBoundary(x, e) == e = Len(x) \/ x[e + 1] \notin WordChars \cup {"Data"}

\* (?:[./-]\d{2,4})?\b from position e on: the year in 4, 3 or 2 digits
\* or no year, then a word boundary
YearAndBoundary(x, e) ==
    \/ /\ e < Len(x) /\ x[e + 1] \in DateSeps
       /\ \E n \in {2, 3, 4} :
             /\ \A k \in 1..n : DigitAt(x, e + k)
             /\ EndBoundary(x, e + 1 + n)
    \/ EndBoundary(x, e)

\* \b(\d{1,2})[./-](\d{1,2})(?:[./-]\d{2,4})?\b matched at position p
\* with a day of a digits and a month of b digits
DateFits(x, p, a, b) ==
    /\ (p = 0 \/ x[p] \notin WordChars \cup {"Data"})
    /\ \A k \in 0..(a - 1) : DigitAt(x, p + k)
    /\ p + a < Len(x) /\ x[p + a + 1] \in DateSeps
    /\ \A k \in 1..b : DigitAt(x, p + a + k)
    /\ YearAndBoundary(x, p + a + 1 + b)

\* The lengths of day and month in the order the matcher tries them:
\* both quantifiers are greedy
DateTries == <<<<2, 2>>, <<2, 1>>, <<1, 2>>, <<1, 1>>>>

\* pat.search(x): <<group 1, group 2>> of the leftmost match, or <<>>
RECURSIVE DateSearchFrom(_, _)
DateSearchFrom(x, p) ==
    LET ok == {t \in 1..Len(DateTries) :
                  DateFits(x, p, DateTries[t][1], DateTries[t][2])}
        a  == DateTries[SetMin(ok)][1]
        b  == DateTries[SetMin(ok)][2]
    IN  IF p >= Len(x) THEN <<>>
        ELSE IF ok # {}
             THEN <<SubSeq(x, p + 1, p + a), SubSeq(x, p + a + 2, p + a + 1 + b)>>
             ELSE DateSearchFrom(x, p + 1)

\* s.zfill(2)
Zfill2(d) == IF Len(d) < 2 THEN <<"0">> \o d ELSE d

\* f"{m.group(1).zfill(2)}-{m.group(2).zfill(2)}"
DayMonth(m) == Zfill2(m[1]) \o <<"-">> \o Zfill2(m[2])

\* The first text of a list in which the pattern matches, as dd-mm
RECURSIVE FirstDate(_)
FirstDate(texts) ==
    IF texts = <<>> THEN NoneStr
    ELSE IF DateSearchFrom(Head(texts), 0) # <<>>
         THEN SomeStr(DayMonth(DateSearchFrom(Head(texts), 0)))
         ELSE FirstDate(Tail(texts))

\* extract_data_declaratie(words): the line bands of the words whose norm
\* contains 'data', in order, then every word on its own
extract_data_declaratie(ls) ==
    LET bands == SelectSeq(ls, LAMBDA ln :
                     \E k \in 1..Len(ln) : Contains(ln[k], "Data"))
        banded == FirstDate([i \in 1..Len(bands) |-> JoinWords(bands[i])])
    IN  IF banded.some THEN banded ELSE FirstDate(Flatten(ls))

\* re.search(r"(\d{2}-\d{2})-\d{4}", l): group 1 of the leftmost match,
\* or <<>>
RECURSIVE FlatDateFrom(_, _)
FlatDateFrom(x, p) ==
    IF p + 10 > Len(x) THEN <<>>
    ELSE IF /\ \A k \in {0, 1, 3, 4, 6, 7, 8, 9} : DigitAt(x, p + k)
            /\ x[p + 3] = "-"
            /\ x[p + 6] = "-"
         THEN SubSeq(x, p + 1, p + 5)
         ELSE FlatDateFrom(x, p + 1)

\* extract_old.py: the first line with [15 09] decides (break after it)
date_old(ls) ==
    LET anchors == SelectSeq(ls, LAMBDA ln :
                       \E k \in 1..Len(ln) : Contains(ln[k], "[15 09]"))
        m == FlatDateFrom(JoinWords(anchors[1]), 0)
    IN  IF anchors = <<>> \/ m = <<>> THEN NoneStr ELSE SomeStr(m)

\* extract_win.py: the first line with [15 09] in which the pattern
\* matches (break only on a match)
RECURSIVE date_win(_)
date_win(ls) ==
    IF ls = <<>> THEN NoneStr
    ELSE IF /\ \E k \in 1..Len(Head(ls)) : Contains(Head(ls)[k], "[15 09]")
            /\ FlatDateFrom(JoinWords(Head(ls)), 0) # <<>>
         THEN SomeStr(FlatDateFrom(JoinWords(Head(ls)), 0))
         ELSE date_win(Tail(ls))

\* The third word of an anchor line: a date d[d] sep m[m], alone or with
\* a year of four or two digits after the same separator, or a word
\* that is no date
DateDays == {<<"2">>, <<"1", "2">>}
DateMonths == {<<"9">>, <<"0", "9">>}
DateYears == {<<>>, <<"2", "0", "2", "5">>, <<"2", "5">>}
DateToks ==
    {d \o <<sp>> \o m \o (IF y = <<>> THEN <<>> ELSE <<sp>> \o y) :
        d \in DateDays, sp \in DateSeps, m \in DateMonths, y \in DateYears}
    \cup {<<"x">>}

DateInit ==
    /\ \E n \in 1..MaxDateLines : \E toks \in [1..n -> DateToks] :
          dateLines = [i \in 1..n |-> << <<"Data">>, <<"[15 09]">>, toks[i] >>]
    /\ dateRet = NoneStr
    /\ datePc = "call"

DateIdle ==
    /\ dateLines = <<>>
    /\ dateRet = NoneStr
    /\ datePc = "idle"

\* extract.py: "dataDeclaratie": extract_data_declaratie(words)
DateFromWords ==
    /\ datePc = "call"
    /\ variant = "extract"
    /\ dateRet' = extract_data_declaratie(dateLines)
    /\ datePc' = "done"
    /\ UNCHANGED dateLines
    /\ UNCHANGED notDate

\* extract_old.py / extract_win.py: the loop over the lines
DateFromLines ==
    /\ datePc = "call"
    /\ variant # "extract"
    /\ dateRet' = IF variant = "extract_old" THEN date_old(dateLines)
                  ELSE date_win(dateLines)
    /\ datePc' = "done"
    /\ UNCHANGED dateLines
    /\ UNCHANGED notDate

----------------------------------------------------------------------------
(* Specifications *)

IdleBut(keep) ==
    /\ ("slice" \in keep \/ SliceIdle)
    /\ ("batch" \in keep \/ BatchIdle)
    /\ ("mrn" \in keep \/ MrnIdle)
    /\ ("ident" \in keep \/ IdentIdle)
    /\ ("buc" \in keep \/ BucIdle)
    /\ ("gre" \in keep \/ GreIdle)
    /\ ("desc" \in keep \/ DescIdle)
    /\ ("norm" \in keep \/ NormIdle)
    /\ ("exp" \in keep \/ ExpIdle)
    /\ ("date" \in keep \/ DateIdle)

InitSlice == variant = "extract" /\ SliceInit /\ IdleBut({"slice"})
NextSlice == SliceCall
SpecSlice == InitSlice /\ [][NextSlice]_vars

InitBatch == variant \in Variants /\ BatchInit /\ IdleBut({"batch"})
NextBatch ==
    \/ UsageError
    \/ PathNotFound
    \/ EnterLoop
    \/ ProcessDoc
    \/ ProcessDocError
    \/ ProcessDocRaise
    \/ Emit
SpecBatch == InitBatch /\ [][NextBatch]_vars

InitMrn == variant \in Variants /\ MrnInit /\ IdleBut({"mrn"})
NextMrn == FindMrnCall \/ ExtractMrnCall
SpecMrn == InitMrn /\ [][NextMrn]_vars

InitIdent == variant \in Variants /\ IdentInit /\ IdleBut({"ident"})
NextIdent == IdentFromPages \/ IdentFromText
SpecIdent == InitIdent /\ [][NextIdent]_vars

InitBuc == variant = "extract" /\ BucInit /\ IdleBut({"buc"})
NextBuc == BucCall
SpecBuc == InitBuc /\ [][NextBuc]_vars

InitGre == variant \in Variants /\ GreInit /\ IdleBut({"gre"})
NextGre == GreFromLines \/ GreFromWords
SpecGre == InitGre /\ [][NextGre]_vars

InitDesc ==
    variant \in {"extract", "extract_win"} /\ DescInit /\ IdleBut({"desc"})
NextDesc == DescFromPages \/ DescFromText
SpecDesc == InitDesc /\ [][NextDesc]_vars

InitNorm == variant = "extract" /\ NormInit /\ IdleBut({"norm"})
NextNorm == NormCall \/ NormAgain
SpecNorm == InitNorm /\ [][NextNorm]_vars

InitExp == variant \in Variants /\ ExpInit /\ IdleBut({"exp"})
NextExp == ExporterFromWords \/ ExporterFromLines
SpecExp == InitExp /\ [][NextExp]_vars

InitDate == variant \in Variants /\ DateInit /\ IdleBut({"date"})
NextDate == DateFromWords \/ DateFromLines
SpecDate == InitDate /\ [][NextDate]_vars

----------------------------------------------------------------------------
(* C1 *)

\* Offsets S..E of the first match of the start pattern, stated directly
StartMatches == {i \in 0..Len(txt) : MatchAt(txt, StartPat, i)}
SliceE == SetMin(StartMatches) + Len(StartPat)
\* Start offsets of all matches of all end patterns
AllEndMatches == UNION {FindIter(txt, endPats[k]) : k \in 1..Len(endPats)}
EndsAfterE == {e \in AllEndMatches : e > SliceE}

\* C1: when the start pattern first matches at S..E, the returned span is
\* txt[E : M] where M is the minimum start offset among the end-pattern
\* matches strictly greater than E (matches at or before E are ignored),
\* and M is the end of the content when there is no such match.
C1_SliceSpan ==
    (slicePc = "done" /\ StartMatches # {}) =>
        /\ sliceRet.some
        /\ sliceRet.val =
             SubSeq(txt, SliceE + 1,
                    IF EndsAfterE # {} THEN SetMin(EndsAfterE) ELSE Len(txt))

\* A call where an end-pattern match lies at or before E and two lie after it
C1_Witness ==
    /\ slicePc = "done"
    /\ StartMatches # {}
    /\ \E e \in AllEndMatches : e <= SliceE
    /\ Cardinality(EndsAfterE) >= 2
    /\ Len(sliceRet.val) > 0

----------------------------------------------------------------------------
(* C2, C3, C10 *)

\* C2: no record emitted for a successfully read document carries a field
\* key whose value is null: each of the seven field keys is present with a
\* value or omitted.
C2_NoNullField ==
    \A i \in 1..Len(results) :
        ~results[i].error => results[i].nulls = {}

\* C3: when the text extraction fails for a document of the batch, the
\* output holds an error record for it and a record for every other
\* document: the run prints one record per document.
C3_FailureNeverAborts ==
    (batchPc = "exit" /\ hasArg /\ pathExists) =>
        /\ printed
        /\ Len(results) = Len(docs)
        /\ \A i \in 1..Len(results) :
              /\ results[i].file = i
              /\ (docs[i].raises = "none" =>
                     results[i].error = ~docs[i].readable)

\* C10: a missing path argument or a path that does not exist ends the
\* run with exit code 2 and a message on standard error before any
\* document is processed; every other run ends with exit code 0.
C10_ExitCodes ==
    batchPc = "exit" =>
        IF ~hasArg \/ ~pathExists
        THEN exitCode = 2 /\ stderrMsg # "" /\ results = <<>> /\ ~printed
        ELSE exitCode = 0

----------------------------------------------------------------------------
(* C4 *)

\* 25RO followed by at least 14 alphanumerics
IsMrnToken(t) ==
    /\ StartsWith(t, Pat25RO)
    /\ Len(t) >= 18
    /\ \A k \in 1..Len(t) : t[k] \in Digits \cup UpperAZ \cup LowerAZ

\* C4: for a matched token made of 25RO and at least 14 alphanumerics,
\* nrMrn is the substring of the token from offset 11 on, whichever lookup
\* path found the token (label window, whole-document scan, joined words,
\* file name).
C4_MrnOffset11 ==
    (mrnPc = "done" /\ mrnPath # "none" /\ IsMrnToken(mrnTok)) =>
        mrnRet = SomeStr(DropFirst(mrnTok, 11))

----------------------------------------------------------------------------
(* C5, C6 *)

\* The document's symbols in document order, page breaks removed
JoinedDoc == JoinPages(PagesOf(docText))

\* A document that is a single span: one page, one start label
SingleSpan ==
    /\ Cardinality(Positions(docText, "DT")) = 1
    /\ Positions(docText, "PB") = {}
TheSpan == SegAfter(docText, SetMin(Positions(docText, "DT")))
CodesOf(seg) == {seg[k] : k \in 1..Len(seg)} \cap TransportCodes

\* The transport type as a function of the set of codes alone
TypeOfCodes(codes, v) ==
    IF v = "extract" /\ "N787" \in codes THEN "Borderou"
    ELSE IF codes \cap {"N740", "N741"} # {} THEN "AWB"
    ELSE IF "N730" \in codes THEN "CMR"
    ELSE "None"

\* C5: the classification of a single bounded span depends only on the
\* set of transport codes in it, not on their order: only N740 / N741
\* gives AWB, only N730 gives CMR, N787 gives Borderou in extract.py, no
\* code gives no value.
C5_OrderIndependent ==
    (identPc = "done" /\ SingleSpan) =>
        /\ identRet = TypeOfCodes(CodesOf(TheSpan), variant)
        /\ (CodesOf(TheSpan) # {} /\ CodesOf(TheSpan) \subseteq {"N740", "N741"}
               => identRet = "AWB")
        /\ (CodesOf(TheSpan) = {"N730"} => identRet = "CMR")
        /\ ("N787" \in CodesOf(TheSpan) /\ variant = "extract"
               => identRet = "Borderou")
        /\ (CodesOf(TheSpan) = {} => identRet = "None")

\* A single span holding a CMR code before an AWB code, classified
C5_Witness ==
    /\ identPc = "done"
    /\ SingleSpan
    /\ \E j, k \in 1..Len(TheSpan) :
          j < k /\ TheSpan[j] = "N730" /\ TheSpan[k] = "N740"
    /\ identRet = "AWB"

\* The start labels, in document order, whose span holds a transport code
CodedStarts ==
    {i \in Positions(JoinedDoc, "DT") :
        ClassifySeg(SegAfter(JoinedDoc, i), variant) # "None"}

\* C6: identificare is the classification of the first start label in
\* document order whose span (up to the nearest end label after it, or
\* the end of the document) holds a transport code, also when that span
\* continues across a page break; a later span never wins over it.
C6_FirstSpanWins ==
    identPc = "done" =>
        identRet = IF CodedStarts = {} THEN "None"
                   ELSE ClassifySeg(SegAfter(JoinedDoc, SetMin(CodedStarts)),
                                    variant)

----------------------------------------------------------------------------
(* C7 *)

BucPages == SplitAt(bucDoc, Sym("PB"))

\* The lines of the '[18 06]' span of page p: after the first field code,
\* before the first next header after it
BucSpanLines(p) ==
    LET hs == {i \in 1..Len(p) : p[i].k = "[18 06]"}
        h  == SetMin(hs)
        es == {i \in 1..Len(p) : i > h /\ p[i].k = "Masa"}
    IN  IF hs = {} THEN <<>>
        ELSE SubSeq(p, h + 1, IF es = {} THEN Len(p) ELSE SetMin(es) - 1)

\* The unit-code matches of a span in order of occurrence: the indices of
\* its 'unit / N /' and 'unit N' lines
UnitLines(sp) == {i \in 1..Len(sp) : sp[i].k \in {"slash", "ws"}}
InRangeLines(sp) ==
    {i \in UnitLines(sp) : BucMin <= DigitsToInt(sp[i].d)
                              /\ DigitsToInt(sp[i].d) <= BucMax}

Candidate(sp) ==
    LET sl == {i \in 1..Len(sp) : sp[i].k = "slash" /\ Len(sp[i].d) <= BucMaxDigits}
        ws == {i \in 1..Len(sp) : sp[i].k = "ws" /\ Len(sp[i].d) <= BucMaxDigits}
    IN  IF sl # {} THEN SetMin(sl) ELSE IF ws # {} THEN SetMin(ws) ELSE 0

CandidateValue(p) ==
    LET sp == BucSpanLines(p)
    IN  IF Candidate(sp) = 0 THEN -1 ELSE DigitsToInt(sp[Candidate(sp)].d)

\* The pages whose candidate is in range
GoodPages ==
    {n \in 1..Len(BucPages) :
        BucMin <= CandidateValue(BucPages[n])
            /\ CandidateValue(BucPages[n]) <= BucMax}

----------------------------------------------------------------------------
(* C8 *)

\* A numeric token: an integer part of one digit or more, optionally
\* followed by '.' or ',' and further digits
IsNumericTok(w) ==
    LET n == RunLen(w, Digits)
        rest == DropFirst(w, n)
    IN  /\ n >= 1
        /\ \/ rest = <<>>
           \/ /\ Len(rest) >= 2
              /\ rest[1] \in NumSeps
              /\ \A k \in 2..Len(rest) : rest[k] \in Digits

\* C8: when the first word below the 'Masa brută' label is a numeric token
\* (integer part of any length, optional separator and further digits),
\* greutate is the integer value of the digits before the first separator.
C8_IntegerPart ==
    (/\ grePc = "done"
     /\ LabelLine(greLines) = 1
     /\ Len(greLines) >= 2
     /\ IsNumericTok(greLines[2][1])) =>
        greRet = SomeInt(DigitsToInt(IntPart(greLines[2][1])))

----------------------------------------------------------------------------
(* C9 *)

\* The page of C9: the header, a line '<integer> <text>', a blank line and
\* the next header
DescPage == descPages[1]
C9Shape ==
    /\ Len(DescPage) = 4
    /\ DescPage[3] = <<>>
    /\ DescPage[4] = <<"COD">>
\* <text>: the value line after its article number and the blank
C9Text == LStrip(DropFirst(DescPage[2], RunLen(DescPage[2], Digits)))

NoBlanks(x) == SelectSeq(x, LAMBDA c : c # " ")
\* No hyphen, no blank before punctuation, no run of blanks
PlainText(x) ==
    /\ ~Contains(x, "-")
    /\ \A k \in 1..(Len(x) - 1) :
          x[k] = " " => x[k + 1] \notin Punct \cup {" "}

----------------------------------------------------------------------------
(* C11 *)

\* The words of the document and the file name, none of which is the
\* label MRN or starts with 25RO (in either case)
NoMrnLabel == LabelLineFrom(lines, 1) = 0
No25ROToken ==
    /\ \A i \in 1..Len(lines) : \A k \in 1..Len(lines[i]) :
          ~StartsWith(Upper(lines[i][k]), Pat25RO)
    /\ ~StartsWith(Upper(filename), Pat25RO)

\* C11: a document with no MRN label, no 25RO-prefixed token and no such
\* token in its file name has no nrMrn.
C11_AbsentWithoutMrn ==
    (mrnPc = "done" /\ NoMrnLabel /\ No25ROToken) => ~mrnRet.some

----------------------------------------------------------------------------
(* C12 *)

\* C12: norm is idempotent, norm(norm(s)) = norm(s) for every s.
C12_NormIdempotent ==
    normPc = "twice" => normTwice = normOnce

\* An accented capital after a blank: the first norm changed the string,
\* the second did not
C12_Witness ==
    /\ normPc = "twice"
    /\ normIn = SomeStr(<<" ", "A_BREVE", "S_COMMA">>)
    /\ normOnce = <<"a", "s">>
    /\ normTwice = normOnce

----------------------------------------------------------------------------
(* C13 *)

\* C13: when one field extractor raises on a document, the document still
\* gets its record, which is not an error record, names the document,
\* lacks the failing field and carries every other field that was found.
C13_FieldFailureIsolated ==
    \A i \in 1..Len(docs) :
        (/\ docs[i].readable
         /\ docs[i].raises # "none"
         /\ (Len(results) >= i \/ batchPc = "exit")) =>
            /\ Len(results) >= i
            /\ ~results[i].error
            /\ results[i].file = i
            /\ docs[i].raises \notin results[i].keys
            /\ docs[i].found \ {docs[i].raises}
                   \subseteq results[i].keys \ results[i].nulls

----------------------------------------------------------------------------
(* C14 *)

\* The lines from 3 before to 8 after the label line that hold an MRN token
LabelAt == LabelLineFrom(lines, 1)
TokenLinesNearLabel ==
    {j \in 1..Len(lines) :
        /\ LabelAt - 3 <= j
        /\ j <= LabelAt + 8
        /\ MrnReSearch(lines[j], variant = "extract_win") # <<>>}

\* C14: in the flat-text lookup, an MRN token on any line from i-3 to i+8
\* around the label line i is found and returned.
C14_WindowThreeBeforeEightAfter ==
    (/\ mrnPc = "done"
     /\ variant # "extract"
     /\ LabelAt > 0
     /\ TokenLinesNearLabel # {}) => mrnRet.some

----------------------------------------------------------------------------
(* C15 *)

\* The lines of the description span: after the header line and before
\* the first following line that holds a next-section header
DescHeaderLine == SetMin({j \in 1..Len(DescPage) : Contains(DescPage[j], "DESC")})
DescEndLine ==
    SetMin({j \in (DescHeaderLine + 1)..Len(DescPage) :
               \E k \in 1..Len(DescNextHeaders) :
                   Contains(DescPage[j], DescNextHeaders[k][1])}
           \cup {Len(DescPage) + 1})
DescSpanLines == (DescHeaderLine + 1)..(DescEndLine - 1)
\* A line without its article number
TextOfLine(ln) == LStrip(DropFirst(ln, RunLen(ln, Digits)))

\* C15: the description returned by extract.py is produced from a line
\* inside the span, after the header and before the next major header;
\* text after that header is never returned.
C15_OnlyFromInsideSpan ==
    (descPc = "done" /\ variant = "extract" /\ descRet.some) =>
        \E j \in DescSpanLines :
            NoBlanks(descRet.val) = NoBlanks(TextOfLine(DescPage[j]))

----------------------------------------------------------------------------
(* C16 *)

\* The page of C16: the header, a value that wraps over two lines, a blank
\* line and the next header
C16Shape ==
    /\ Len(DescPage) = 5
    /\ DescPage[1] = <<"DESC">>
    /\ Strip(DescPage[2]) # <<>>
    /\ Strip(DescPage[3]) # <<>>
    /\ DescPage[4] = <<>>
    /\ DescPage[5] = <<"COD">>

\* C16: a description that wraps over consecutive non-blank lines is
\* returned as all of those lines, in order, up to the first blank line.
C16_MultiLineConcatenated ==
    (descPc = "done" /\ C16Shape) =>
        /\ descRet.some
        /\ NoBlanks(descRet.val) =
               NoBlanks(TextOfLine(DescPage[2])) \o NoBlanks(DescPage[3])

----------------------------------------------------------------------------
(* C17 *)

\* What is left of a line's tokens without the leading checkbox glyphs and
\* without the field-code tokens
Remaining(ws) ==
    SelectSeq(DropFirst(ws, RunLen(ws, CheckTicks)),
              LAMBDA t : t \notin FieldCodeToks)
\* The lines the name may come from: not a VAT line, something left of it
\* and, for the word-based script, inside the band below the label
NameLines ==
    {k \in 1..Len(expLines) :
        /\ ~StartsNr(expLines[k].words)
        /\ Remaining(expLines[k].words) # <<>>
        /\ (variant = "extract" => expLines[k].top <= ExpBand)}

\* C17: numeExportator comes from the first line below the label that
\* does not start with Nr and is not empty without checkbox glyphs and
\* field-code tokens; a line that starts with Nr is never the line the
\* name comes from.
C17_ExporterFirstNameLine ==
    expPc = "done" =>
        IF NameLines = {} THEN ~expRet.some
        ELSE /\ expRet.some
             /\ expRet.val \in
                  {expLines[SetMin(NameLines)].words,
                   Remaining(expLines[SetMin(NameLines)].words)}

----------------------------------------------------------------------------
(* C18 *)

\* The date word of the first anchor line, its day and its month
DateTok == dateLines[1][3]
DateDay == SubSeq(DateTok, 1, RunLen(DateTok, Digits))
DateMonth ==
    LET rest == DropFirst(DateTok, Len(DateDay) + 1)
    IN  SubSeq(rest, 1, RunLen(rest, Digits))
Pad2(d) == IF Len(d) = 1 THEN <<"0">> \o d ELSE d

\* C18: for an anchor line whose date token is d[d] sep m[m] with an
\* optional year, sep being '.', '/' or '-', dataDeclaratie is the day
\* and the month, each padded to two digits, joined by a hyphen.
C18_DayMonthAnySeparator ==
    (datePc = "done" /\ DateTok # <<"x">>) =>
        dateRet = SomeStr(Pad2(DateDay) \o <<"-">> \o Pad2(DateMonth))

====
